---- MODULE Spec2Model ----
(***************************************************************************)
(* Model of the HTTP transport of the Meru Node SDK: HttpClient.request    *)
(* (retry loop), HttpClient.makeRequest (one attempt: fetch under a        *)
(* timeout, size checks, JSON validation, status classification),          *)
(* HttpClient.buildHeaders and HttpClient.readResponseWithSizeLimit,       *)
(* together with the InputValidator functions they call.                   *)
(*                                                                         *)
(* Strings are sequences of character tokens.  Time is in milliseconds.    *)
(***************************************************************************)
EXTENDS Integers, Sequences, FiniteSets, TLC

(***************************************************************************)
(* Bounds of the model                                                     *)
(***************************************************************************)
\* largest retryConfig.times explored
MaxTimes == 2
\* largest maxResponseSize explored (bytes)
MaxCap == 2
\* largest number of chunks a response body is delivered in
MaxChunks == 2
\* largest number of caller-supplied headers in one request
MaxHeaders == 2
\* largest number of items of the outermost array of a JSON document
MaxWidth == 2
\* largest retry number whose backoff is computed
MaxRetries == 4
MaxEntries == 2
MaxLen == 3
MaxNow == 3

(***************************************************************************)
(* Program constants                                                       *)
(***************************************************************************)
MAX_HEADER_VALUE_LENGTH == 8192
MAX_RETRY_AFTER == 300
BACKOFF_MULTIPLIER == 2
MAX_DELAY == 30000
DEFAULT_DELAY == 100
DEFAULT_MAX_DELAY == 5000
DEFAULT_TIMEOUT == 30000
DEFAULT_TIMES == 3
MAX_RESPONSE_SIZE == 10485760
MAX_JSON_DEPTH == 100
MIN_REQUEST_TIMEOUT == 1000
MAX_REQUEST_TIMEOUT == 60000

Min(a, b) == IF a <= b THEN a ELSE b

RECURSIVE Pow(_, _)
Pow(b, e) == IF e = 0 THEN 1 ELSE b * Pow(b, e - 1)

(***************************************************************************)
(* Strings                                                                 *)
(***************************************************************************)
\* the characters matched by /[\x00-\x1f\x7f]/
ControlChars == {"NUL", "CR", "LF", "TAB", "DEL"}
\* the characters String.prototype.trim removes that are not control characters
WhiteSpace == {"SP"}

\* A string is kept run-length encoded: a sequence of runs [c, n], n >= 1
\* copies of the character c, adjacent runs having different characters.
Run(c, n) == [c |-> c, n |-> n]

RECURSIVE Merge(_)
Merge(s) ==
  IF Len(s) < 2 THEN s
  ELSE IF s[1].c = s[2].c
  THEN Merge(<<Run(s[1].c, s[1].n + s[2].n)>> \o SubSeq(s, 3, Len(s)))
  ELSE <<s[1]>> \o Merge(Tail(s))

\* the string with the characters of the sequence cs
Text(cs) == Merge([i \in 1..Len(cs) |-> Run(cs[i], 1)])

\* the string of n copies of c
Rep(c, n) == IF n = 0 THEN <<>> ELSE <<Run(c, n)>>

\* string concatenation
Concat(s, t) == Merge(s \o t)

\* s.length
RECURSIVE Length(_)
Length(s) == IF s = <<>> THEN 0 ELSE Head(s).n + Length(Tail(s))

\* s.substring(0, k)
RECURSIVE Substring(_, _)
Substring(s, k) ==
  IF s = <<>> \/ k <= 0 THEN <<>>
  ELSE IF Head(s).n >= k THEN <<Run(Head(s).c, k)>>
  ELSE <<Head(s)>> \o Substring(Tail(s), k - Head(s).n)

\* a JavaScript value handed in as a header value: a string or something else
Str(s) == [type |-> "string", chars |-> s]
NotAString == [type |-> "number", chars |-> <<>>]

IsControlRun(r) == r.c \in ControlChars
NotControlRun(r) == ~IsControlRun(r)

\* s.replace(/[\x00-\x1f\x7f]/g, '')
RemoveControl(s) == Merge(SelectSeq(s, NotControlRun))

RECURSIVE TrimStart(_)
TrimStart(s) ==
  IF s # <<>> /\ Head(s).c \in WhiteSpace THEN TrimStart(Tail(s)) ELSE s

RECURSIVE TrimEnd(_)
TrimEnd(s) ==
  IF s # <<>> /\ s[Len(s)].c \in WhiteSpace
  THEN TrimEnd(SubSeq(s, 1, Len(s) - 1)) ELSE s

\* s.trim()
Trim(s) == TrimEnd(TrimStart(s))

\* InputValidator.sanitizeString(input, maxLength) for a JavaScript value;
\* maxLength 0 stands for an absent maxLength (both are falsy)
sanitizeString(input, maxLength) ==
  IF input.type # "string" THEN <<>>
  ELSE LET stripped == RemoveControl(input.chars)
           trimmed  == Trim(stripped)
       IN IF maxLength # 0 /\ Length(trimmed) > maxLength
          THEN Substring(trimmed, maxLength)
          ELSE trimmed

\* HEADER_INJECTION_PATTERNS: /[\r\n]/, /\x00/, /[\x01-\x1f\x7f]/
MatchesInjectionPattern(s) == \E i \in 1..Len(s) : s[i].c \in ControlChars

\* validateHeaderValue without its length check
validateHeaderValueNoLength(value) ==
  IF value.type # "string"
  THEN [isValid |-> FALSE, errors |-> <<"not a string">>]
  ELSE LET e2 == IF MatchesInjectionPattern(value.chars)
                 THEN <<"invalid characters">> ELSE <<>>
       IN [isValid |-> (e2 = <<>>), errors |-> e2]

\* InputValidator.validateHeaderValue(value, fieldName)
validateHeaderValue(value) ==
  IF value.type # "string"
  THEN [isValid |-> FALSE, errors |-> <<"not a string">>]
  ELSE LET e1 == IF Length(value.chars) > MAX_HEADER_VALUE_LENGTH
                 THEN <<"too long">> ELSE <<>>
           e2 == IF MatchesInjectionPattern(value.chars)
                 THEN <<"invalid characters">> ELSE <<>>
       IN [isValid |-> (e1 \o e2 = <<>>), errors |-> e1 \o e2]

(***************************************************************************)
(* Header names.  Object keys are strings; toLowerCase is tabulated on the *)
(* names the model uses.                                                   *)
(***************************************************************************)
HeaderNames ==
  {"", "Authorization", "AUTHORIZATION", "user-agent", "Host", "X-Custom"}

toLowerCase(key) ==
  CASE key = "Accept"        -> "accept"
    [] key = "Content-Type"  -> "content-type"
    [] key = "User-Agent"    -> "user-agent"
    [] key = "Authorization" -> "authorization"
    [] key = "AUTHORIZATION" -> "authorization"
    [] key = "User-Agent"    -> "user-agent"
    [] key = "Host"          -> "host"
    [] key = "X-Custom"      -> "x-custom"
    [] OTHER                 -> key

CriticalHeaders == {"authorization", "user-agent", "host"}

\* the critical-header test applied to the key as written
IsCriticalHeaderCaseSensitive(key) == key \in CriticalHeaders

\* ['authorization', 'user-agent', 'host'].includes(key.toLowerCase())
IsCriticalHeader(key) == toLowerCase(key) \in CriticalHeaders

\* `Bearer ${apiToken}`
Bearer(apiToken) ==
  Concat(Text(<<"B", "e", "a", "r", "e", "r", "SP">>), apiToken)
\* '@meruhook/node-sdk/1.0.0'
USER_AGENT == Text(<<"s", "d", "k">>)
\* 'application/json'
APPLICATION_JSON == Text(<<"j", "s", "o", "n">>)

\* headers[key] = value on a JavaScript object
SetHeader(h, key, value) ==
  [k \in (DOMAIN h) \cup {key} |-> IF k = key THEN value ELSE h[k]]

DefaultHeaders(apiToken) ==
  [k \in {"Accept", "Content-Type", "Authorization", "User-Agent"} |->
     CASE k = "Accept"        -> APPLICATION_JSON
       [] k = "Content-Type"  -> APPLICATION_JSON
       [] k = "Authorization" -> Bearer(apiToken)
       [] k = "User-Agent"    -> USER_AGENT]

\* The loop of buildHeaders over Object.entries(options), given as a
\* sequence of <<key, value>> pairs.  The result is the header object, or
\* the ValidationException the loop threw.
RECURSIVE buildHeadersLoop(_, _)
buildHeadersLoop(headers, entries) ==
  IF entries = <<>> THEN [thrown |-> FALSE, headers |-> headers]
  ELSE LET key   == Head(entries)[1]
           value == Head(entries)[2]
       IN IF key = ""
          THEN buildHeadersLoop(headers, Tail(entries))
          ELSE IF ~validateHeaderValue(value).isValid
          THEN [thrown |-> TRUE, headers |-> headers]
          ELSE IF IsCriticalHeader(key)
          THEN buildHeadersLoop(headers, Tail(entries))
          ELSE buildHeadersLoop(
                 SetHeader(headers, key,
                           sanitizeString(value, MAX_HEADER_VALUE_LENGTH)),
                 Tail(entries))

\* HttpClient.buildHeaders(options); NoHeaders is `undefined`
NoHeaders == <<>>
buildHeaders(token, customHeaders) ==
  buildHeadersLoop(DefaultHeaders(token), customHeaders)

(***************************************************************************)
(* URLs and host names.  A host is a domain name, an IPv4 address given by *)
(* its four octets, or an IPv6 address; a host name string is a host as it *)
(* is written, an IPv6 address with or without square brackets.  The URLs  *)
(* of the model have no user info, query or fragment, no percent sign, and *)
(* are shorter than MAX_URL_LENGTH; a port does not show in the host name. *)
(***************************************************************************)
Domain(name) ==
  [form |-> "domain", name |-> name, octets |-> <<>>, brackets |-> FALSE]
IPv4(a, b, c, d) ==
  [form |-> "ipv4", name |-> "", octets |-> <<a, b, c, d>>,
   brackets |-> FALSE]
IPv6(addr) ==
  [form |-> "ipv6", name |-> addr, octets |-> <<>>, brackets |-> FALSE]

\* a URL string: text that `new URL` parses into a scheme and a host, text
\* that it refuses, or the empty string
Url(scheme, host) == [kind |-> "url", scheme |-> scheme, host |-> host]
GarbageUrl == [kind |-> "garbage", scheme |-> "", host |-> Domain("")]
EmptyUrl == [kind |-> "empty", scheme |-> "", host |-> Domain("")]

\* 'https://api.meruhook.com'
DEFAULT_BASE_URL == Url("https", Domain("api.meruhook.com"))

\* hostname.toLowerCase(), tabulated on the names of the model
lowerCaseName(name) == IF name = "LOCALHOST" THEN "localhost" ELSE name

\* String.prototype.toLowerCase on a host name string
normalizeHostname(h) ==
  IF h.form = "domain" THEN [h EXCEPT !.name = lowerCaseName(h.name)] ELSE h

\* parsedUrl.hostname of `new URL(url)`: the host in lower case, an IPv6
\* address inside square brackets
hostname(url) ==
  IF url.host.form = "ipv6"
  THEN [url.host EXCEPT !.brackets = TRUE]
  ELSE normalizeHostname(url.host)

ALLOWED_URL_SCHEMES == {"https"}
ALLOWED_URL_SCHEMES_DEV == {"https", "http"}

\* BLOCKED_HOSTNAMES: host names, and address ranges in CIDR notation
Literal(h) == [cidr |-> FALSE, base |-> h]
Cidr(h) == [cidr |-> TRUE, base |-> h]
BLOCKED_HOSTNAMES ==
  <<Literal(Domain("localhost")),
    Literal(IPv4(127, 0, 0, 1)),
    Literal(IPv4(0, 0, 0, 0)),
    Literal(IPv6("::1")),
    Literal(IPv4(169, 254, 169, 254)),
    Cidr(IPv4(10, 0, 0, 0)),
    Cidr(IPv4(172, 16, 0, 0)),
    Cidr(IPv4(192, 168, 0, 0))>>

\* /^10\./, /^172\.(1[6-9]|2\d|3[01])\./ or /^192\.168\./ matches
matchesPrivateRange(h) ==
  /\ h.form = "ipv4"
  /\ \/ h.octets[1] = 10
     \/ h.octets[1] = 172 /\ h.octets[2] \in 16..31
     \/ h.octets[1] = 192 /\ h.octets[2] = 168

\* InputValidator.isBlockedHostname(hostname): a CIDR entry blocks the host
\* names that start with its base address, any other entry the host name
\* equal to it
isBlockedHostname(h) ==
  LET n == normalizeHostname(h)
  IN \/ \E i \in 1..Len(BLOCKED_HOSTNAMES) : n = BLOCKED_HOSTNAMES[i].base
     \/ matchesPrivateRange(n)

\* a ValidationResult
Result(errors) == [isValid |-> (errors = <<>>), errors |-> errors]

\* InputValidator.validateWebhookUrl(url, { allowHttp, required })
validateWebhookUrl(url, allowHttp, required) ==
  IF url.kind = "empty"
  THEN [isValid |-> ~required,
        errors  |-> IF required THEN <<"required">> ELSE <<>>]
  ELSE IF url.kind = "garbage" THEN Result(<<"not a valid URL">>)
  ELSE LET allowed == IF allowHttp THEN ALLOWED_URL_SCHEMES_DEV
                                   ELSE ALLOWED_URL_SCHEMES
           e1 == IF url.scheme \notin allowed
                 THEN <<"protocol">> ELSE <<>>
           e2 == IF isBlockedHostname(hostname(url))
                 THEN <<"hostname not allowed">> ELSE <<>>
       IN Result(e1 \o e2)

\* UrlValidator.isPrivateNetwork
isPrivateNetwork(h) == matchesPrivateRange(h)

\* UrlValidator.isLoopback
isLoopback(h) ==
  h \in {Domain("localhost"), IPv4(127, 0, 0, 1), IPv6("::1"),
         IPv4(0, 0, 0, 0)}

\* UrlValidator.isMetadataService
isMetadataService(h) ==
  \/ h \in {IPv4(169, 254, 169, 254), IPv4(100, 100, 100, 200),
            Domain("metadata.google.internal")}
  \/ h.form = "domain" /\ h.name \in {"x.metadata.internal"}

\* UrlValidator.isValidDomainName: the pattern of dot-separated labels of
\* letters, digits and inner hyphens, which a dotted IPv4 address matches
isValidDomainName(h) ==
  \/ h.form = "ipv4"
  \/ h.form = "domain" /\ h.name \notin {"", "my_host"}

\* UrlValidator.isValidIPAddress: four groups of digits up to 255, or eight
\* groups of hexadecimal digits
FullIPv6 == {"2001:db8:0:0:0:0:0:1"}
isValidIPAddress(h) ==
  \/ h.form = "ipv4" /\ \A i \in 1..4 : h.octets[i] \in 0..255
  \/ h.form = "ipv6" /\ ~h.brackets /\ h.name \in FullIPv6

\* UrlValidator.validateHostname(hostname, fieldName, options)
validateHostname(h, allowPrivateNetworks) ==
  IF h = Domain("") THEN Result(<<"required">>)
  ELSE LET n  == normalizeHostname(h)
           e1 == IF \E i \in 1..Len(BLOCKED_HOSTNAMES) :
                      ~BLOCKED_HOSTNAMES[i].cidr
                      /\ n = BLOCKED_HOSTNAMES[i].base
                 THEN <<"not allowed">> ELSE <<>>
           e2 == IF ~allowPrivateNetworks /\ isPrivateNetwork(n)
                 THEN <<"private network">> ELSE <<>>
           e3 == IF ~allowPrivateNetworks /\ isLoopback(n)
                 THEN <<"localhost">> ELSE <<>>
           e4 == IF ~allowPrivateNetworks /\ isMetadataService(n)
                 THEN <<"metadata service">> ELSE <<>>
           e5 == IF ~isValidDomainName(n) /\ ~isValidIPAddress(n)
                 THEN <<"not a domain name or IP address">> ELSE <<>>
       IN Result(e1 \o e2 \o e3 \o e4 \o e5)

\* the domains of shortenerDomains that a host name of the model ends with
endsWithShortener(h) == h.form = "domain" /\ h.name \in {"bit.ly"}

\* UrlValidator.checkSuspiciousPatterns(url, fieldName)
checkSuspiciousPatterns(url) ==
  IF endsWithShortener(hostname(url)) THEN <<"URL shortener">> ELSE <<>>

\* UrlValidator.validateUrl(url, fieldName, { allowHttp }); the other
\* options keep their defaults
validateUrl(url, allowHttp) ==
  IF url.kind = "empty" THEN Result(<<"non-empty string">>)
  ELSE IF url.kind = "garbage" THEN Result(<<"not a valid URL format">>)
  ELSE LET allowed == IF allowHttp THEN ALLOWED_URL_SCHEMES_DEV
                                   ELSE ALLOWED_URL_SCHEMES
           e1 == IF url.scheme \notin allowed
                 THEN <<"protocol">> ELSE <<>>
           e2 == validateHostname(hostname(url), FALSE).errors
           e3 == checkSuspiciousPatterns(url)
       IN Result(e1 \o e2 \o e3)

(***************************************************************************)
(* Client configuration (the state HttpClient's constructor leaves)        *)
(***************************************************************************)
\* the retry option of MeruClientConfig; absent fields take the defaults
RetryOptions == [times : 0..MaxTimes]

\* `object?.field ?? default` for an object given as a record that has the
\* fields that are set
Get(object, field, default) ==
  IF field \in DOMAIN object THEN object[field] ELSE default

\* retryConfig built with one retry too many
MakeRetryConfigOneMore(retry) ==
  [times             |-> Get(retry, "times", DEFAULT_TIMES) + 1,
   delay             |-> Get(retry, "delay", DEFAULT_DELAY),
   maxDelay          |->
     Min(Get(retry, "maxDelay", DEFAULT_MAX_DELAY), MAX_DELAY),
   backoffMultiplier |->
     Get(retry, "backoffMultiplier", BACKOFF_MULTIPLIER)]

\* this.retryConfig = { times, delay, maxDelay, backoffMultiplier }
MakeRetryConfig(retry) ==
  [times             |-> Get(retry, "times", DEFAULT_TIMES),
   delay             |-> Get(retry, "delay", DEFAULT_DELAY),
   maxDelay          |->
     Min(Get(retry, "maxDelay", DEFAULT_MAX_DELAY), MAX_DELAY),
   backoffMultiplier |->
     Get(retry, "backoffMultiplier", BACKOFF_MULTIPLIER)]

API_TOKEN == Text(<<"t">>)

\* a JavaScript value handed in as a timeout that is not a number
NotANumber == [kind |-> "string", n |-> 0]

\* InputValidator.validateTimeout(timeout)
validateTimeout(t) ==
  IF t.kind # "number" THEN Result(<<"not a valid number">>)
  ELSE LET e1 == IF t.n < MIN_REQUEST_TIMEOUT
                 THEN <<"too short">> ELSE <<>>
           e2 == IF t.n > MAX_REQUEST_TIMEOUT
                 THEN <<"too long">> ELSE <<>>
       IN Result(e1 \o e2)

\* HttpClient's constructor applied to a MeruClientConfig, given as a
\* record that has the fields that are set, under NODE_ENV = env: the
\* fields of the new client, or thrown for the ValidationException
constructor(cfg, env) ==
  LET url == Get(cfg, "baseUrl", DEFAULT_BASE_URL)
      t   == Get(cfg, "timeout", [kind |-> "number", n |-> DEFAULT_TIMEOUT])
      rt  == Get(cfg, "retry", <<>>)
      no  == [thrown |-> TRUE, apiToken |-> <<>>, baseUrl |-> url,
              timeout |-> 0, maxResponseSize |-> 0, retry |-> rt,
              retryConfig |-> MakeRetryConfig(rt)]
  IN IF cfg.apiToken.type # "string" \/ cfg.apiToken.chars = <<>>
     THEN no
     ELSE IF ~validateUrl(url, env = "development").isValid
     THEN no
     ELSE IF ~validateTimeout(t).isValid
     THEN no
     ELSE [thrown          |-> FALSE,
           apiToken        |-> cfg.apiToken.chars,
           baseUrl         |-> url,
           timeout         |-> t.n,
           maxResponseSize |->
             Get(cfg, "maxResponseSize", MAX_RESPONSE_SIZE),
           retry           |-> rt,
           retryConfig     |-> MakeRetryConfig(rt)]

(***************************************************************************)
(* Responses and failures                                                  *)
(***************************************************************************)
\* a response header that carries a number: absent, a decimal number, or
\* text parseInt cannot read (an HTTP date)
HeaderAbsent == [kind |-> "absent", n |-> 0]
HeaderNumber(n) == [kind |-> "number", n |-> n]
HeaderDate == [kind |-> "date", n |-> 0]

\* JavaScript number | undefined
Undefined == [kind |-> "undefined", n |-> 0]
NaN == [kind |-> "NaN", n |-> 0]
Number(n) == [kind |-> "number", n |-> n]

\* parseInt(text, 10) of a header that is present
parseInt(h) == IF h.kind = "number" THEN Number(h.n) ELSE NaN

\* truthiness of a JavaScript number | undefined
Truthy(v) == v.kind = "number" /\ v.n # 0

Statuses == {200, 401, 422, 429, 500}
RetryAfterHeaders ==
  {HeaderAbsent, HeaderDate, HeaderNumber(0), HeaderNumber(2),
   HeaderNumber(MAX_RETRY_AFTER), HeaderNumber(MAX_RETRY_AFTER + 1)}
ContentLengthHeaders(cap) ==
  {HeaderAbsent, HeaderNumber(cap), HeaderNumber(cap + 1)}

\* what fetch resolves with: the status line and headers of a response, and
\* whether the response has a body stream
Responses(cap) ==
  {r \in [status        : Statuses,
          contentLength : ContentLengthHeaders(cap),
          json          : BOOLEAN,
          retryAfter    : RetryAfterHeaders,
          hasBody       : BOOLEAN] :
     r.retryAfter # HeaderAbsent => r.status = 429}

NoResponse ==
  [status |-> 0, contentLength |-> HeaderAbsent, json |-> FALSE,
   retryAfter |-> HeaderAbsent, hasBody |-> FALSE]

\* response.ok with the lower limit excluded
OkAbove200(r) == r.status \in 201..299

\* response.ok
Ok(r) == r.status \in 200..299

\* thrown values: the class name, what raised it, the status code and
\* retry-after value it carries, and the attempt that produced it
Error(name, reason, status, retryAfter, attempt) ==
  [name |-> name, reason |-> reason, status |-> status,
   retryAfter |-> retryAfter, attempt |-> attempt]

NoError == Error("none", "none", 0, Undefined, 0)

\* RateLimitException.fromResponse: retryAfter from the retry-after header
RateLimitRetryAfter(r) ==
  IF r.retryAfter.kind # "absent" THEN parseInt(r.retryAfter) ELSE Undefined

\* handleHttpError with 401 treated like any other status
handleHttpErrorNoAuth(r, attempt) ==
  CASE r.status = 422 ->
         Error("ValidationException", "http", r.status, Undefined, attempt)
    [] r.status = 429 ->
         Error("RateLimitException", "http", r.status,
               RateLimitRetryAfter(r), attempt)
    [] OTHER ->
         Error("MeruException", "http", r.status, Undefined, attempt)

\* HttpClient.handleHttpError(response)
handleHttpError(r, attempt) ==
  CASE r.status = 401 ->
         Error("AuthenticationException", "http", r.status, Undefined, attempt)
    [] r.status = 422 ->
         Error("ValidationException", "http", r.status, Undefined, attempt)
    [] r.status = 429 ->
         Error("RateLimitException", "http", r.status,
               RateLimitRetryAfter(r), attempt)
    [] OTHER ->
         Error("MeruException", "http", r.status, Undefined, attempt)

(***************************************************************************)
(* The retry policy of request()                                           *)
(***************************************************************************)
\* the backoff without its ceiling
computeDelayUncapped(rc, attempt) ==
  rc.delay * Pow(rc.backoffMultiplier, attempt - 1)

\* a backoff that does not grow with the attempt
computeDelayFixed(rc, attempt) == Min(rc.delay, rc.maxDelay)

\* Math.min(delay * Math.pow(backoffMultiplier, attempt - 1), maxDelay)
computeDelay(rc, attempt) ==
  Min(rc.delay * Pow(rc.backoffMultiplier, attempt - 1), rc.maxDelay)

\* the test `attempt > this.retryConfig.times` written with >=
IsLastAttemptEarly(rc, attempt) == attempt >= rc.times

\* the test passing one attempt more
IsLastAttemptLate(rc, attempt) == attempt > rc.times + 1

\* `attempt > this.retryConfig.times`: no retry after the last attempt
IsLastAttempt(rc, attempt) == attempt > rc.times

\* the rate-limit test without the upper limit on the wait
RetryAfterUsableAny(retryAfter) == Truthy(retryAfter)

\* `retryAfter && retryAfter <= RATE_LIMIT_DEFAULTS.MAX_RETRY_AFTER`
RetryAfterUsable(retryAfter) ==
  Truthy(retryAfter) /\ retryAfter.n <= MAX_RETRY_AFTER

\* a catch block that waits the computed backoff after a rate-limit failure
catchBlockBackoffOnly(rc, error, attempt) ==
  IF error.name \in {"AuthenticationException", "ValidationException"}
  THEN [next |-> "throw", ms |-> 0]
  ELSE IF error.name = "RateLimitException"
  THEN IF RetryAfterUsable(error.retryAfter) /\ attempt <= rc.times
       THEN [next |-> "sleep", ms |-> computeDelay(rc, attempt)]
       ELSE [next |-> "throw", ms |-> 0]
  ELSE IF IsLastAttempt(rc, attempt)
  THEN [next |-> "throw", ms |-> 0]
  ELSE [next |-> "sleep", ms |-> computeDelay(rc, attempt)]

\* The catch block of request(): what follows a failed attempt, either the
\* failure is thrown to the caller or the loop sleeps ms and goes on.
catchBlock(rc, error, attempt) ==
  IF error.name \in {"AuthenticationException", "ValidationException"}
  THEN [next |-> "throw", ms |-> 0]
  ELSE IF error.name = "RateLimitException"
  THEN IF RetryAfterUsable(error.retryAfter) /\ attempt <= rc.times
       THEN [next |-> "sleep", ms |-> error.retryAfter.n * 1000]
       ELSE [next |-> "throw", ms |-> 0]
  ELSE IF IsLastAttempt(rc, attempt)
  THEN [next |-> "throw", ms |-> 0]
  ELSE [next |-> "sleep", ms |-> computeDelay(rc, attempt)]

(***************************************************************************)
(* SimpleCache and HttpResponseCache.  A cache key or URL is a string      *)
(* given as the sequence of its pieces, '' being the empty sequence; a     *)
(* cached value is given by whether JSON.stringify accepts it and by the   *)
(* length of what it serializes to.  The Map is the sequence of its        *)
(* entries in the order of insertion.                                      *)
(***************************************************************************)
\* the defaults of SimpleCache's constructor: 5 minutes, 10 MB, 1000 entries
DEFAULT_CACHE_TTL == 300000
DEFAULT_CACHE_MAX_SIZE == 10485760
DEFAULT_CACHE_MAX_ENTRIES == 1000
\* the defaults of HttpResponseCache's constructor
HTTP_CACHE_TTL == 120000
HTTP_CACHE_MAX_SIZE == 5242880
HTTP_CACHE_MAX_ENTRIES == 500
\* the size estimateSize assumes when JSON.stringify fails
FALLBACK_SIZE == 1024

\* SimpleCache's constructor: this.options of the options it is given
SimpleCacheOptions(o) ==
  [ttl        |-> Get(o, "ttl", DEFAULT_CACHE_TTL),
   maxSize    |-> Get(o, "maxSize", DEFAULT_CACHE_MAX_SIZE),
   maxEntries |-> Get(o, "maxEntries", DEFAULT_CACHE_MAX_ENTRIES)]

\* HttpResponseCache's constructor: the options it hands to SimpleCache
HttpCacheOptions(o) ==
  o @@ [ttl |-> HTTP_CACHE_TTL, maxSize |-> HTTP_CACHE_MAX_SIZE,
        maxEntries |-> HTTP_CACHE_MAX_ENTRIES]

\* a cached value
Value(id, length) == [serializable |-> TRUE, id |-> id, length |-> length]
Unserializable == [serializable |-> FALSE, id |-> 0, length |-> 0]

\* SimpleCache.estimateSize(value)
estimateSize(value) ==
  IF value.serializable THEN value.length * 2 ELSE FALLBACK_SIZE

\* the positions of the entries of Map c under key
Positions(c, key) == {i \in 1..Len(c) : c[i].key = key}

\* Map.has(key)
mapHas(c, key) == Positions(c, key) # {}

\* Map.get(key) of a key the Map has
mapGet(c, key) == c[CHOOSE i \in Positions(c, key) : TRUE]

\* Map.set(key, entry): an existing key keeps its place
mapSet(c, key, entry) ==
  IF mapHas(c, key)
  THEN [i \in 1..Len(c) |-> IF c[i].key = key THEN entry ELSE c[i]]
  ELSE Append(c, entry)

\* Map.delete(key)
RECURSIVE mapDelete(_, _)
mapDelete(c, key) ==
  IF c = <<>> THEN <<>>
  ELSE IF Head(c).key = key THEN mapDelete(Tail(c), key)
  ELSE <<Head(c)>> \o mapDelete(Tail(c), key)

\* delete(key) without the subtraction from currentSize
deleteWithoutAccounting(st, key) ==
  IF ~mapHas(st.cache, key) THEN st
  ELSE [cache       |-> mapDelete(st.cache, key),
        currentSize |-> st.currentSize]

\* SimpleCache.delete(key) on the cache st = [cache, currentSize]
delete(st, key) ==
  IF ~mapHas(st.cache, key) THEN st
  ELSE [cache       |-> mapDelete(st.cache, key),
        currentSize |-> st.currentSize - mapGet(st.cache, key).size]

\* the expiry test comparing with >= in place of >
expiredEarly(entry, now) == now >= entry.expiry

\* `Date.now() > entry.expiry`
expired(entry, now) == now > entry.expiry

\* delete(key) for each key of a list, in turn
RECURSIVE deleteAll(_, _)
deleteAll(st, keys) ==
  IF keys = <<>> THEN st ELSE deleteAll(delete(st, Head(keys)), Tail(keys))

\* the keys of the entries of c, in order
RECURSIVE keysOf(_)
keysOf(c) == IF c = <<>> THEN <<>> ELSE <<Head(c).key>> \o keysOf(Tail(c))

\* the entries of c that have expired at now, in order
RECURSIVE expiredEntries(_, _)
expiredEntries(c, now) ==
  IF c = <<>> THEN <<>>
  ELSE (IF expired(Head(c), now) THEN <<Head(c)>> ELSE <<>>)
       \o expiredEntries(Tail(c), now)

\* SimpleCache.cleanup()
cleanup(st, now) == deleteAll(st, keysOf(expiredEntries(st.cache, now)))

\* SimpleCache.evictOldest(): `if (firstKey) this.delete(firstKey)`, where
\* firstKey is undefined for an empty Map and '' is falsy
evictOldest(st) ==
  IF st.cache = <<>> THEN st
  ELSE IF Head(st.cache).key = <<>> THEN st
  ELSE delete(st, Head(st.cache).key)

\* the test of the while loop without its size condition
needsRoomForEntry(st, size, o) ==
  /\ Len(st.cache) >= o.maxEntries
  /\ Len(st.cache) > 0

\* the test of the while loop of set
needsRoom(st, size, o) ==
  /\ \/ Len(st.cache) >= o.maxEntries
     \/ st.currentSize + size > o.maxSize
  /\ Len(st.cache) > 0

\* SimpleCache.getStats()
getStats(st) ==
  [size |-> Len(st.cache), entries |-> Len(st.cache),
   memoryUsage |-> st.currentSize]

\* String.prototype.includes
includes(s, sub) ==
  \E i \in 0..(Len(s) - Len(sub)) : SubSeq(s, i + 1, i + Len(sub)) = sub

\* the pieces of a URL that begin a query string
QueryPieces == {"?page=1", "?page=2"}

\* url.split('?')[0]
RECURSIVE beforeQuery(_)
beforeQuery(url) ==
  IF url = <<>> THEN <<>>
  ELSE IF Head(url) \in QueryPieces THEN <<>>
  ELSE <<Head(url)>> \o beforeQuery(Tail(url))

\* HttpResponseCache.generateKey(method, url, body): bodyStr is the
\* serialized body, '' for an absent body
generateKey(method, url, bodyStr) ==
  <<method, ":">> \o url \o <<":">> \o bodyStr

\* `url.split('?')[0] || url`
invalidateBase(url) == IF beforeQuery(url) = <<>> THEN url ELSE beforeQuery(url)

\* the loop of HttpResponseCache.invalidate over the keys the cache lists
RECURSIVE invalidateLoop(_, _, _)
invalidateLoop(st, keys, base) ==
  IF keys = <<>> THEN st
  ELSE invalidateLoop(IF includes(Head(keys), base)
                      THEN delete(st, Head(keys)) ELSE st,
                      Tail(keys), base)

(***************************************************************************)
(* State                                                                   *)
(***************************************************************************)
VARIABLES
  pc,              \* position of the request() call
  retry,           \* the retry option the client was constructed with
  retryConfig,     \* this.retryConfig
  maxResponseSize, \* this.maxResponseSize
  timeout,         \* this.timeout
  apiToken,        \* this.apiToken
  options,         \* the argument of request(): whether its endpoint parses
                   \* as a URL, and its headers as Object.entries lists them
  headers,         \* the header object request() hands to every fetch call
  attempt,         \* the loop variable of request()
  calls,           \* the fetch calls made so far, with their start and outcome
  response,        \* the response the latest settled fetch call resolved with
  totalSize,       \* totalSize of readResponseWithSizeLimit
  chunks,          \* chunks of readResponseWithSizeLimit (their lengths)
  readState,       \* how far the body of the response was read
  jsonValidation,  \* jsonValidation.isValid of makeRequest, once computed
  lastError,       \* lastError of request()
  thrown,          \* what request() threw
  result,          \* what request() returned
  sleepMs,         \* the argument of the pending sleep()
  clock,           \* elapsed time in ms
  baseUrl,         \* this.baseUrl
  loggerFaults,    \* the methods of this.logger that throw when called
  input,           \* the arguments of the operation under study
  output,          \* what that operation returned
  frames,          \* the calls of getObjectDepth that have not returned
  cache,           \* this.cache of a SimpleCache: its entries in the order
                   \* of insertion, which is the order a Map iterates in
  currentSize,     \* this.currentSize of that SimpleCache
  cacheOptions     \* this.options of that SimpleCache

vars ==
  <<pc, retry, retryConfig, maxResponseSize, timeout, apiToken, options,
    headers, attempt, calls, response, totalSize, chunks, readState,
    jsonValidation, lastError, thrown, result, sleepMs, clock, baseUrl,
    loggerFaults, input, output, frames, cache, currentSize, cacheOptions>>

\* the state of the SimpleCache
store == <<cache, currentSize, cacheOptions>>

config ==
  <<retry, retryConfig, maxResponseSize, timeout, apiToken, baseUrl,
    loggerFaults, input, output, frames, store>>

NoResult == [status |-> 0, attempt |-> 0, size |-> 0]

\* no operation under study
NoInput == [op |-> "none"]
NoOutput == [op |-> "none"]

\* a client in state p built with the retry option rt, and the arguments
\* inp of the operation under study; the logger methods that throw are
\* those the arguments name
InitState(p, rt, inp) ==
  /\ pc = p
  /\ retry = rt
  /\ retryConfig = MakeRetryConfig(retry)
  /\ maxResponseSize \in {MaxCap}
  /\ timeout = DEFAULT_TIMEOUT
  /\ apiToken = API_TOKEN
  /\ baseUrl = DEFAULT_BASE_URL
  /\ loggerFaults = Get(inp, "loggerFaults", {})
  /\ input = inp
  /\ output = NoOutput
  /\ frames = <<>>
  /\ cache = <<>>
  /\ currentSize = 0
  /\ cacheOptions = SimpleCacheOptions(Get(inp, "cacheOptions", <<>>))
  /\ options = [endpointParses |-> TRUE, headers |-> NoHeaders]
  /\ headers = DefaultHeaders(apiToken)
  /\ attempt = 0
  /\ calls = <<>>
  /\ response = NoResponse
  /\ totalSize = 0
  /\ chunks = <<>>
  /\ readState = "none"
  /\ jsonValidation = "none"
  /\ lastError = NoError
  /\ thrown = NoError
  /\ result = NoResult
  /\ sleepMs = 0
  /\ clock = 0

Init == \E rt \in RetryOptions : InitState("idle", rt, NoInput)

(***************************************************************************)
(* Steps of one request() call                                             *)
(***************************************************************************)
\* the record of a fetch call that was just issued
NewCall(hdrs, now) ==
  [startedAt |-> now, endedAt |-> now, headers |-> hdrs,
   outcome |-> "pending", error |-> NoError]

\* the record of the latest fetch call, once its attempt has ended
EndCall(outcome, error, now) ==
  [calls EXCEPT ![Len(calls)] =
     [@ EXCEPT !.endedAt = now, !.outcome = outcome, !.error = error]]

\* the loop test `attempt <= this.retryConfig.times + 1`
LoopContinues(rc, a) == a <= rc.times + 1

\* what a method of this.logger throws when it fails
LoggerError(a) == Error("Error", "logger", 0, Undefined, a)

\* the method of this.logger the catch block calls: logRateLimit for a
\* rate-limit failure with a usable Retry-After, logRetry before the sleep
\* of any other retry
logCallInCatch(rc, error, a) ==
  IF error.name \in {"AuthenticationException", "ValidationException"}
  THEN "none"
  ELSE IF error.name = "RateLimitException"
  THEN (IF RetryAfterUsable(error.retryAfter) THEN "logRateLimit"
        ELSE "none")
  ELSE IF IsLastAttempt(rc, a) THEN "none"
  ELSE "logRetry"

\* the catch block of request() for the failure of attempt a: the failure
\* is thrown or the loop sleeps; a logger method that throws inside the
\* catch block ends request() with what it threw
Catch(error, a) ==
  LET c == catchBlock(retryConfig, error, a)
  IN /\ lastError' = error
     /\ IF logCallInCatch(retryConfig, error, a) \in loggerFaults
        THEN /\ pc' = "failed"
             /\ thrown' = LoggerError(a)
             /\ UNCHANGED sleepMs
        ELSE IF c.next = "throw"
        THEN /\ pc' = "failed"
             /\ thrown' = error
             /\ UNCHANGED sleepMs
        ELSE /\ pc' = "retryWait"
             /\ sleepMs' = c.ms
             /\ UNCHANGED thrown

\* the body of the for loop up to the fetch call: attempt a is started;
\* logRequest is called inside the try block, before makeRequest
StartAttempt(a, hdrs, now) ==
  IF LoopContinues(retryConfig, a)
  THEN IF "logRequest" \in loggerFaults
       THEN /\ attempt' = a
            /\ Catch(LoggerError(a), a)
            /\ UNCHANGED <<calls>>
       ELSE /\ pc' = "sending"
            /\ attempt' = a
            /\ calls' = Append(calls, NewCall(hdrs, now))
            /\ UNCHANGED <<thrown, lastError, sleepMs>>
  ELSE \* the loop is left: throw lastError
       /\ pc' = "failed"
       /\ attempt' = a
       /\ thrown' = lastError
       /\ UNCHANGED <<calls, lastError, sleepMs>>

\* makeRequest threw error: the catch block of request()
Caught(error, now) ==
  /\ calls' = EndCall("failed", error, now)
  /\ Catch(error, attempt)
  /\ UNCHANGED <<attempt, result>>

\* makeRequest after the body text was read: JSON validation, then the
\* status is classified and the response returned or the failure thrown
BodyRead(r, size, jsonValid, now) ==
  /\ readState' = "complete"
  /\ jsonValidation' =
       IF r.json /\ size > 0
       THEN (IF jsonValid THEN "valid" ELSE "invalid") ELSE "none"
  /\ IF r.json /\ size > 0 /\ ~jsonValid
     THEN Caught(Error("MeruException", "json", 0, Undefined, attempt), now)
     ELSE IF ~Ok(r)
     THEN Caught(handleHttpError(r, attempt), now)
     ELSE IF "logResponse" \in loggerFaults
     THEN \* logResponse throws inside the try block
          /\ calls' = EndCall("ok", NoError, now)
          /\ Catch(LoggerError(attempt), attempt)
          /\ UNCHANGED <<attempt, result>>
     ELSE /\ pc' = "done"
          /\ result' =
               [status |-> r.status, attempt |-> attempt, size |-> size]
          /\ calls' = EndCall("ok", NoError, now)
          /\ UNCHANGED <<attempt, lastError, thrown, sleepMs>>

\* request(options): buildUrl, buildHeaders, then the first attempt
Request(o) ==
  /\ pc = "idle"
  /\ options' = o
  /\ IF ~o.endpointParses
     THEN \* new URL(endpoint, baseUrl) throws
          /\ pc' = "failed"
          /\ thrown' = Error("TypeError", "url", 0, Undefined, 0)
          /\ UNCHANGED <<headers, attempt, calls, lastError, sleepMs>>
     ELSE LET b == buildHeaders(apiToken, o.headers)
          IN IF b.thrown
             THEN /\ pc' = "failed"
                  /\ thrown' =
                       Error("ValidationException", "header", 0, Undefined, 0)
                  /\ UNCHANGED <<headers, attempt, calls, lastError,
                                 sleepMs>>
             ELSE /\ headers' = b.headers
                  /\ StartAttempt(1, b.headers, clock)
  /\ UNCHANGED <<config, response, totalSize, chunks, readState,
                 jsonValidation, result, clock>>

\* fetch rejects: a TypeError whose message names fetch becomes a
\* MeruException, any other rejection is rethrown as it is
FetchRejects(namesFetch) ==
  /\ pc = "sending"
  /\ response' = NoResponse
  /\ Caught(IF namesFetch
            THEN Error("MeruException", "network", 0, Undefined, attempt)
            ELSE Error("TypeError", "network", 0, Undefined, attempt),
            clock)
  /\ UNCHANGED <<config, options, headers, totalSize, chunks, readState,
                 jsonValidation, clock>>

\* the timeout timer fires before fetch settles: the call is aborted
FetchTimeout ==
  /\ pc = "sending"
  /\ response' = NoResponse
  /\ clock' = clock + timeout
  /\ Caught(Error("MeruException", "timeout", 0, Undefined, attempt),
            clock + timeout)
  /\ UNCHANGED <<config, options, headers, totalSize, chunks, readState,
                 jsonValidation>>

\* the content-length test passing a declared size one byte above the cap
exceedsDeclaredSizeByTwo(r, cap) ==
  /\ r.contentLength.kind # "absent"
  /\ parseInt(r.contentLength).kind = "number"
  /\ parseInt(r.contentLength).n > cap + 1

\* `contentLength && parseInt(contentLength, 10) > this.maxResponseSize`
exceedsDeclaredSize(r, cap) ==
  /\ r.contentLength.kind # "absent"
  /\ parseInt(r.contentLength).kind = "number"
  /\ parseInt(r.contentLength).n > cap

\* fetch resolves with response r: the declared size is checked, then the
\* body is read (a response without a body stream reads as '')
FetchResolves(r) ==
  /\ pc = "sending"
  /\ response' = r
  /\ totalSize' = 0
  /\ chunks' = <<>>
  /\ IF exceedsDeclaredSize(r, maxResponseSize)
     THEN /\ Caught(Error("MeruException", "size", 0, Undefined, attempt),
                    clock)
          /\ UNCHANGED <<readState, jsonValidation>>
     ELSE IF ~r.hasBody
     THEN BodyRead(r, 0, TRUE, clock)
     ELSE /\ pc' = "reading"
          /\ readState' = "reading"
          /\ UNCHANGED <<attempt, calls, lastError, thrown, result, sleepMs,
                         jsonValidation>>
  /\ UNCHANGED <<config, options, headers, clock>>

\* the loop body of readResponseWithSizeLimit with the size test made
\* before the chunk is counted
readChunkTestFirst(total, chs, n, cap) ==
  IF total > cap
  THEN [thrown |-> TRUE, totalSize |-> total + n, chunks |-> chs]
  ELSE [thrown |-> FALSE, totalSize |-> total + n, chunks |-> Append(chs, n)]

\* the loop body of readResponseWithSizeLimit for a chunk of n bytes:
\* totalSize += value.length, the size test, chunks.push(value)
readChunk(total, chs, n, cap) ==
  IF total + n > cap
  THEN [thrown |-> TRUE, totalSize |-> total + n, chunks |-> chs]
  ELSE [thrown |-> FALSE, totalSize |-> total + n, chunks |-> Append(chs, n)]

\* reader.read() yields a chunk of n bytes
ReadChunk(n) ==
  /\ pc = "reading"
  /\ Len(chunks) < MaxChunks
  /\ LET rd == readChunk(totalSize, chunks, n, maxResponseSize)
     IN /\ totalSize' = rd.totalSize
        /\ chunks' = rd.chunks
        /\ IF rd.thrown
           THEN /\ Caught(Error("MeruException", "size", 0, Undefined,
                                attempt), clock)
                /\ readState' = "aborted"
           ELSE UNCHANGED <<pc, attempt, calls, lastError, thrown, result,
                            sleepMs, readState>>
  /\ UNCHANGED <<config, options, headers, response, jsonValidation, clock>>

\* reader.read() reports the end of the body; jsonValid is the verdict of
\* validateJsonString on the text
ReadDone(jsonValid) ==
  /\ pc = "reading"
  /\ BodyRead(response, totalSize, jsonValid, clock)
  /\ UNCHANGED <<config, options, headers, response, totalSize, chunks,
                 clock>>

\* reader.read() rejects: the connection broke while the body was read
ReadFails ==
  /\ pc = "reading"
  /\ Caught(Error("TypeError", "network", 0, Undefined, attempt), clock)
  /\ readState' = "broken"
  /\ UNCHANGED <<config, options, headers, response, totalSize, chunks,
                 jsonValidation, clock>>

\* the next round of the loop entered without awaiting sleep()
WakeWithoutWaiting ==
  /\ pc = "retryWait"
  /\ StartAttempt(attempt + 1, headers, clock)
  /\ response' = NoResponse
  /\ totalSize' = 0
  /\ chunks' = <<>>
  /\ readState' = "none"
  /\ jsonValidation' = "none"
  /\ UNCHANGED <<config, options, headers, result, clock>>

\* the sleep ends: attempt++ and the next round of the loop
Wake ==
  /\ pc = "retryWait"
  /\ clock' = clock + (IF sleepMs > 0 THEN sleepMs ELSE 0)
  /\ StartAttempt(attempt + 1, headers,
                  clock + (IF sleepMs > 0 THEN sleepMs ELSE 0))
  /\ response' = NoResponse
  /\ totalSize' = 0
  /\ chunks' = <<>>
  /\ readState' = "none"
  /\ jsonValidation' = "none"
  /\ UNCHANGED <<config, options, headers, result>>

(***************************************************************************)
(* Inputs                                                                  *)
(***************************************************************************)
\* chunk lengths: a single byte, a chunk that fills the cap, one that exceeds it
ChunkSizes == {1, MaxCap, MaxCap + 1}

\* requests of the transport specification: a well-formed endpoint and no
\* caller-supplied header
PlainOptions == [endpointParses : {TRUE}, headers : {NoHeaders}]

\* header values a caller may supply: padded with blanks, with CR LF, with
\* NUL, of the maximum length, one character longer, not a string
HeaderValues ==
  {NotAString,
   Str(Text(<<"SP", "a", "SP">>)),
   Str(Text(<<"a", "CR", "LF", "b">>)),
   Str(Text(<<"NUL">>)),
   Str(Rep("a", MAX_HEADER_VALUE_LENGTH)),
   Str(Rep("a", MAX_HEADER_VALUE_LENGTH + 1))}

HeaderEntries == HeaderNames \X HeaderValues

\* Object.entries of a header object lists no key twice
DistinctKeys(e) == \A i, j \in 1..Len(e) : e[i][1] = e[j][1] => i = j

\* the responses of the header specification: 200 without a body
EmptyResponses ==
  {r \in Responses(MaxCap) :
     /\ r.status = 200
     /\ r.contentLength = HeaderAbsent
     /\ ~r.json
     /\ ~r.hasBody}

Next ==
  \/ /\ pc = "idle"
     /\ \E o \in PlainOptions : Request(o)
  \/ \E b \in BOOLEAN : FetchRejects(b)
  \/ FetchTimeout
  \/ \E r \in Responses(maxResponseSize) : FetchResolves(r)
  \/ \E n \in ChunkSizes : ReadChunk(n)
  \/ \E v \in BOOLEAN : ReadDone(v)
  \/ ReadFails
  \/ Wake

Spec == Init /\ [][Next]_vars

\* The header specification: every header object of the caller, against a
\* server that answers 200 or is unreachable
NextHeaders ==
  \/ /\ pc = "idle"
     /\ \E n \in 0..MaxHeaders : \E e \in [1..n -> HeaderEntries] :
          /\ DistinctKeys(e)
          /\ \E p \in BOOLEAN :
               Request([endpointParses |-> p, headers |-> e])
  \/ FetchRejects(TRUE)
  \/ \E r \in EmptyResponses : FetchResolves(r)
  \/ Wake

SpecHeaders == Init /\ [][NextHeaders]_vars

(***************************************************************************)
(* The logger specification: a client with debug logging whose logger      *)
(* methods may throw, against a server that answers 200, 429 or 500 without *)
(* a body, or is unreachable                                               *)
(***************************************************************************)
LoggerMethods == {"logRequest", "logResponse", "logRetry", "logRateLimit"}

LoggerResponses ==
  {r \in Responses(MaxCap) :
     /\ r.status \in {200, 429, 500}
     /\ r.contentLength = HeaderAbsent
     /\ ~r.json
     /\ ~r.hasBody
     /\ r.retryAfter \in {HeaderAbsent, HeaderNumber(2)}}

LoggerInputs == [op : {"request"}, loggerFaults : SUBSET LoggerMethods]

InitLogger ==
  \E rt \in RetryOptions, inp \in LoggerInputs : InitState("idle", rt, inp)

NextLogger ==
  \/ /\ pc = "idle"
     /\ \E o \in PlainOptions : Request(o)
  \/ FetchRejects(TRUE)
  \/ \E r \in LoggerResponses : FetchResolves(r)
  \/ Wake

SpecLogger == InitLogger /\ [][NextLogger]_vars

(***************************************************************************)
(* The progress specification: one request() call against a server that    *)
(* may answer, fail, or stay silent at any point.  The steps the client's   *)
(* own timers drive are fair: the abort timer of makeRequest, which runs    *)
(* from the fetch call until fetch settles, and the timer of sleep().  No   *)
(* step of the server is fair.                                             *)
(***************************************************************************)
LiveResponses ==
  {r \in Responses(MaxCap) :
     /\ r.status \in {200, 500}
     /\ r.contentLength = HeaderAbsent
     /\ ~r.json
     /\ r.retryAfter = HeaderAbsent}

\* the caller calls request()
Called ==
  /\ pc = "idle"
  /\ \E o \in PlainOptions : Request(o)

NextLive ==
  \/ Called
  \/ FetchRejects(TRUE)
  \/ FetchTimeout
  \/ \E r \in LiveResponses : FetchResolves(r)
  \/ \E n \in ChunkSizes : ReadChunk(n)
  \/ ReadDone(TRUE)
  \/ ReadFails
  \/ Wake

SpecLive ==
  /\ Init
  /\ [][NextLive]_vars
  /\ WF_vars(Called)
  /\ WF_vars(FetchTimeout)
  /\ WF_vars(Wake)

(***************************************************************************)
(* Construction of a client                                                *)
(***************************************************************************)
\* new HttpClient(config): the fields are assigned, or the constructor
\* throws and there is no client
Construct ==
  /\ pc = "new"
  /\ LET c == constructor(input.config, input.NODE_ENV)
     IN IF c.thrown
        THEN /\ pc' = "rejected"
             /\ thrown' =
                  Error("ValidationException", "config", 0, Undefined, 0)
             /\ UNCHANGED <<apiToken, baseUrl, timeout, maxResponseSize,
                            retry, retryConfig, headers>>
        ELSE /\ pc' = "idle"
             /\ apiToken' = c.apiToken
             /\ baseUrl' = c.baseUrl
             /\ timeout' = c.timeout
             /\ maxResponseSize' = c.maxResponseSize
             /\ retry' = c.retry
             /\ retryConfig' = c.retryConfig
             /\ headers' = DefaultHeaders(c.apiToken)
             /\ UNCHANGED thrown
  /\ UNCHANGED <<options, attempt, calls, response, totalSize, chunks,
                 readState, jsonValidation, lastError, result, sleepMs,
                 clock, loggerFaults, store, input, output, frames>>

\* one field of a configuration object: absent, or set to one of values
Field(name, values) ==
  {<<>>} \cup {[k \in {name} |-> v] : v \in values}

ConfigTokens == {Str(API_TOKEN), Str(<<>>), NotAString}
ConfigBaseUrls ==
  {Url("https", Domain("api.example.com")),
   Url("http", Domain("api.example.com")),
   Url("http", Domain("localhost")),
   Url("https", IPv4(10, 0, 0, 1)),
   GarbageUrl}
ConfigTimeouts ==
  {Number(0), Number(MIN_REQUEST_TIMEOUT - 1), Number(MIN_REQUEST_TIMEOUT),
   Number(MAX_REQUEST_TIMEOUT), Number(MAX_REQUEST_TIMEOUT + 1), NaN,
   NotANumber}
ConfigSizes == {-1, 0, MaxCap}
ConfigRetries ==
  {[times |-> -1], [times |-> 0], [times |-> MaxTimes],
   [backoffMultiplier |-> 0], [backoffMultiplier |-> 1],
   [delay |-> -1, maxDelay |-> -1]}

\* the configuration objects handed to the constructor
Configs ==
  {[apiToken |-> tk] @@ u @@ t @@ z @@ r :
     tk \in ConfigTokens,
     u \in Field("baseUrl", ConfigBaseUrls),
     t \in Field("timeout", ConfigTimeouts),
     z \in Field("maxResponseSize", ConfigSizes),
     r \in Field("retry", ConfigRetries)}

ConstructorInputs ==
  [op : {"constructor"}, config : Configs,
   NODE_ENV : {"production", "development"}]

InitConstructor ==
  \E i \in ConstructorInputs : InitState("new", <<>>, i)

NextConstructor == Construct

SpecConstructor == InitConstructor /\ [][NextConstructor]_vars

(***************************************************************************)
(* The URL validators as functions of their arguments                      *)
(***************************************************************************)
\* the operation under study has been applied
Applied(op) == input.op = op /\ output # NoOutput

\* an operation that reads and writes nothing but its arguments and result
Returns(op, value) ==
  /\ input.op = op
  /\ output = NoOutput
  /\ output' = value
  /\ UNCHANGED <<pc, retry, retryConfig, maxResponseSize, timeout, apiToken,
                 options, headers, attempt, calls, response, totalSize,
                 chunks, readState, jsonValidation, lastError, thrown,
                 result, sleepMs, clock, baseUrl, loggerFaults, store, input,
                 frames>>

\* InputValidator.validateWebhookUrl(url, { allowHttp }) is called
ValidateWebhookUrl ==
  Returns("validateWebhookUrl",
          validateWebhookUrl(input.url, input.allowHttp, TRUE))

\* UrlValidator.validateHostname(new URL(url).hostname, fieldName,
\* { allowPrivateNetworks }) is called
ValidateHostname ==
  Returns("validateHostname",
          validateHostname(hostname(input.url), input.allowPrivateNetworks))

\* hosts: the blocked names and addresses, addresses at and next to the
\* limits of the private ranges, and public hosts
Hosts ==
  {Domain("localhost"), Domain("LOCALHOST"), Domain("api.example.com"),
   Domain("metadata.google.internal"), Domain("my_host"),
   IPv4(127, 0, 0, 1), IPv4(127, 0, 0, 2), IPv4(0, 0, 0, 0),
   IPv4(10, 0, 0, 0), IPv4(10, 1, 2, 3), IPv4(11, 0, 0, 1),
   IPv4(172, 15, 0, 1), IPv4(172, 16, 0, 0), IPv4(172, 31, 255, 255),
   IPv4(172, 32, 0, 1), IPv4(192, 168, 0, 0), IPv4(192, 168, 1, 1),
   IPv4(192, 169, 0, 1), IPv4(169, 254, 169, 254),
   IPv4(100, 100, 100, 200), IPv4(8, 8, 8, 8),
   IPv6("::1"), IPv6("2001:db8::1")}

Urls ==
  {Url(sc, h) : sc \in {"https", "http", "ftp"}, h \in Hosts}
    \cup {GarbageUrl, EmptyUrl}

UrlInputs ==
  [op : {"validateWebhookUrl"}, url : Urls, allowHttp : BOOLEAN]
    \cup [op : {"validateHostname"}, url : Urls \ {GarbageUrl, EmptyUrl},
          allowPrivateNetworks : BOOLEAN]

InitUrl == \E i \in UrlInputs : InitState("idle", [times |-> 0], i)

NextUrl ==
  \/ ValidateWebhookUrl
  \/ ValidateHostname

SpecUrl == InitUrl /\ [][NextUrl]_vars

(***************************************************************************)
(* validateJsonString and the walk of getObjectDepth, one step for each    *)
(* call and each return.  The JSON values of the model are a primitive     *)
(* (null, a boolean, a number, a string) and the arrays whose items are    *)
(* chains: a primitive, an empty array or an empty object inside n         *)
(* containers of one child each.  A node of an array is named by the item  *)
(* it belongs to and its level below the array.                            *)
(***************************************************************************)
Chain(leaf, n) == [leaf |-> leaf, n |-> n]
PrimitiveValue == [kind |-> "primitive", items |-> <<>>]
ArrayValue(items) == [kind |-> "array", items |-> items]

Max(a, b) == IF a >= b THEN a ELSE b

Root == [item |-> 0, level |-> 0]
Node(item, level) == [item |-> item, level |-> level]

\* `obj === null || typeof obj !== 'object'`
isPrimitive(v, node) ==
  IF node = Root THEN v.kind = "primitive"
  ELSE /\ node.level = v.items[node.item].n + 1
       /\ v.items[node.item].leaf = "primitive"

\* the items of an array, or Object.values of an object
childrenOf(v, node) ==
  IF node = Root
  THEN [c \in 1..Len(v.items) |-> Node(c, 1)]
  ELSE IF node.level <= v.items[node.item].n
  THEN <<Node(node.item, node.level + 1)>>
  ELSE <<>>

\* a call getObjectDepth(obj, depth) that has just begun: maxDepth = depth
\* and the loop stands before the first child
Frame(node, depth) ==
  [node |-> node, depth |-> depth, maxDepth |-> depth, i |-> 1]

\* the call returns at once: `depth > MAX_JSON_DEPTH` or a primitive
returnsAtOnce(v, f) ==
  f.depth > MAX_JSON_DEPTH \/ isPrimitive(v, f.node)

\* the call has nothing left to do
finished(v, f) ==
  returnsAtOnce(v, f) \/ f.i > Len(childrenOf(v, f.node))

\* what the call returns
returnValue(v, f) == IF returnsAtOnce(v, f) THEN f.depth ELSE f.maxDepth

\* the first check of validateJsonString
sizeErrors(text) == IF text.long THEN <<"size">> ELSE <<>>

\* validateJsonString(jsonString) up to JSON.parse: the length check, then
\* the text fails to parse or getObjectDepth(parsed) is called
ParseJson ==
  /\ input.op = "validateJsonString"
  /\ output = NoOutput
  /\ frames = <<>>
  /\ IF input.text.parses
     THEN /\ frames' = <<Frame(Root, 0)>>
          /\ UNCHANGED output
     ELSE /\ output' = [isValid |-> FALSE,
                        errors  |-> sizeErrors(input.text) \o <<"format">>,
                        depth   |-> 0]
          /\ UNCHANGED frames
  /\ UNCHANGED <<pc, retry, retryConfig, maxResponseSize, timeout, apiToken,
                 options, headers, attempt, calls, response, totalSize,
                 chunks, readState, jsonValidation, lastError, thrown,
                 result, sleepMs, clock, baseUrl, loggerFaults, store, input>>

\* the loop of getObjectDepth calls itself for the next child
Descend ==
  /\ frames # <<>>
  /\ LET f == frames[Len(frames)]
     IN /\ ~finished(input.text.value, f)
        /\ frames' =
             Append(frames,
                    Frame(childrenOf(input.text.value, f.node)[f.i],
                          f.depth + 1))
  /\ UNCHANGED <<pc, retry, retryConfig, maxResponseSize, timeout, apiToken,
                 options, headers, attempt, calls, response, totalSize,
                 chunks, readState, jsonValidation, lastError, thrown,
                 result, sleepMs, clock, baseUrl, loggerFaults, store, input,
                 output>>

\* a call of getObjectDepth returns: its caller takes the larger of
\* maxDepth and the value and goes on with the next child; when the
\* outermost call returns, validateJsonString compares the depth with
\* MAX_JSON_DEPTH and returns its result
Return ==
  /\ frames # <<>>
  /\ LET f == frames[Len(frames)]
         r == returnValue(input.text.value, f)
     IN /\ finished(input.text.value, f)
        /\ IF Len(frames) = 1
           THEN LET e == sizeErrors(input.text)
                           \o (IF r > MAX_JSON_DEPTH
                               THEN <<"depth">> ELSE <<>>)
                IN /\ frames' = <<>>
                   /\ output' =
                        [isValid |-> (e = <<>>), errors |-> e, depth |-> r]
           ELSE /\ frames' =
                     [SubSeq(frames, 1, Len(frames) - 1)
                        EXCEPT ![Len(frames) - 1] =
                          [@ EXCEPT !.maxDepth = Max(@, r), !.i = @ + 1]]
                /\ UNCHANGED output
  /\ UNCHANGED <<pc, retry, retryConfig, maxResponseSize, timeout, apiToken,
                 options, headers, attempt, calls, response, totalSize,
                 chunks, readState, jsonValidation, lastError, thrown,
                 result, sleepMs, clock, baseUrl, loggerFaults, store, input>>

\* the chains, in a fixed order
Chains ==
  <<Chain("primitive", 0), Chain("array", 0),
    Chain("primitive", MAX_JSON_DEPTH - 2), Chain("object", MAX_JSON_DEPTH - 2),
    Chain("primitive", MAX_JSON_DEPTH - 1), Chain("array", MAX_JSON_DEPTH - 1),
    Chain("primitive", MAX_JSON_DEPTH), Chain("object", MAX_JSON_DEPTH)>>

\* the JSON values: a primitive, and the arrays of up to MaxWidth chains
\* taken in that order
JsonValues ==
  {PrimitiveValue} \cup
  UNION {{ArrayValue([k \in 1..w |-> Chains[s[k]]]) :
            s \in {t \in [1..w -> 1..Len(Chains)] :
                     \A a, b \in 1..w : a < b => t[a] < t[b]}} :
         w \in 0..MaxWidth}

\* the strings handed to validateJsonString: JSON text of a value, or text
\* JSON.parse refuses; longer than MAX_RESPONSE_SIZE or not
JsonTexts ==
  [parses : {TRUE}, value : JsonValues, long : BOOLEAN]
    \cup [parses : {FALSE}, value : {PrimitiveValue}, long : BOOLEAN]

JsonInputs == [op : {"validateJsonString"}, text : JsonTexts]

InitJson == \E i \in JsonInputs : InitState("idle", [times |-> 0], i)

NextJson ==
  \/ ParseJson
  \/ Descend
  \/ Return

SpecJson == InitJson /\ [][NextJson]_vars

(***************************************************************************)
(* The backoff as a function of the retry option and the retry number.     *)
(* Delays and multipliers are whole numbers.                               *)
(***************************************************************************)
\* the delays request() computes before the retries 1..MaxRetries of a
\* client constructed with the retry option
ComputeDelays ==
  Returns("computeDelay",
          [a \in 1..MaxRetries |->
             computeDelay(MakeRetryConfig(input.retry), a)])

BackoffRetries ==
  {d @@ m @@ b :
     d \in Field("delay", {-1, 0, 1, DEFAULT_DELAY, MAX_DELAY + 10000}),
     m \in Field("maxDelay", {-1, 0, 150, 2 * DEFAULT_DELAY,
                              MAX_DELAY + 10000}),
     b \in Field("backoffMultiplier", {0, 1, 3})}

BackoffInputs == [op : {"computeDelay"}, retry : BackoffRetries]

InitBackoff == \E i \in BackoffInputs : InitState("idle", [times |-> 0], i)

NextBackoff == ComputeDelays

SpecBackoff == InitBackoff /\ [][NextBackoff]_vars

(***************************************************************************)
(* The cache specification: set, get, has, delete, keys and clear on one   *)
(* SimpleCache while time passes.  The while loop of set is walked one     *)
(* iteration a step; every other method is one step.                       *)
(***************************************************************************)
\* what the cache methods leave alone
transport ==
  <<retry, retryConfig, maxResponseSize, timeout, apiToken, options, headers,
    attempt, calls, response, totalSize, chunks, readState, jsonValidation,
    lastError, thrown, result, sleepMs, baseUrl, loggerFaults, frames>>

\* the SimpleCache as the operators take it
Store == [cache |-> cache, currentSize |-> currentSize]

\* the SimpleCache becomes st
Becomes(st) ==
  /\ cache' = st.cache
  /\ currentSize' = st.currentSize

\* SimpleCache.set(key, value, ttl) up to its while loop: the size test,
\* the removal of an entry under the same key, and cleanup()
SetBegins(key, value, ttl) ==
  LET effectiveTtl == IF ttl.kind = "undefined" THEN cacheOptions.ttl
                      ELSE ttl.n
      expiry == clock + effectiveTtl
      size == estimateSize(value)
      entry == [key |-> key, value |-> value, expiry |-> expiry,
                size |-> size]
      call == [op |-> "set", key |-> key, entry |-> entry, at |-> clock]
  IN /\ input' = call
     /\ IF size > cacheOptions.maxSize
        THEN /\ output' = [op |-> "set", returned |-> FALSE]
             /\ UNCHANGED <<pc, cache, currentSize>>
        ELSE /\ pc' = "setting"
             /\ output' = NoOutput
             /\ Becomes(cleanup(IF mapHas(cache, key)
                                THEN delete(Store, key) ELSE Store, clock))

\* SimpleCache.set(key, value, ttl) is called
CacheSet(key, value, ttl) ==
  /\ pc = "idle"
  /\ SetBegins(key, value, ttl)
  /\ UNCHANGED <<transport, clock, cacheOptions>>

\* one iteration of the while loop of set: evictOldest()
Evict ==
  /\ pc = "setting"
  /\ needsRoom(Store, input.entry.size, cacheOptions)
  /\ Becomes(evictOldest(Store))
  /\ UNCHANGED <<transport, pc, clock, cacheOptions, input, output>>

\* the while loop of set has ended: the entry is stored and set returns
Stored ==
  /\ pc = "setting"
  /\ ~needsRoom(Store, input.entry.size, cacheOptions)
  /\ cache' = mapSet(cache, input.key, input.entry)
  /\ currentSize' = currentSize + input.entry.size
  /\ output' = [op |-> "set", returned |-> TRUE]
  /\ pc' = "idle"
  /\ UNCHANGED <<transport, clock, cacheOptions, input>>

\* SimpleCache.get(key)
CacheGet(key) ==
  /\ pc = "idle"
  /\ input' = [op |-> "get", key |-> key, at |-> clock]
  /\ IF ~mapHas(cache, key)
     THEN /\ output' = [op |-> "get", found |-> FALSE, value |-> Unserializable]
          /\ UNCHANGED <<cache, currentSize>>
     ELSE IF expired(mapGet(cache, key), clock)
     THEN /\ output' = [op |-> "get", found |-> FALSE, value |-> Unserializable]
          /\ Becomes(delete(Store, key))
     ELSE /\ output' = [op |-> "get", found |-> TRUE,
                        value |-> mapGet(cache, key).value]
          /\ UNCHANGED <<cache, currentSize>>
  /\ UNCHANGED <<transport, pc, clock, cacheOptions>>

\* SimpleCache.has(key)
CacheHas(key) ==
  /\ pc = "idle"
  /\ input' = [op |-> "has", key |-> key, at |-> clock]
  /\ IF ~mapHas(cache, key)
     THEN /\ output' = [op |-> "has", found |-> FALSE]
          /\ UNCHANGED <<cache, currentSize>>
     ELSE IF expired(mapGet(cache, key), clock)
     THEN /\ output' = [op |-> "has", found |-> FALSE]
          /\ Becomes(delete(Store, key))
     ELSE /\ output' = [op |-> "has", found |-> TRUE]
          /\ UNCHANGED <<cache, currentSize>>
  /\ UNCHANGED <<transport, pc, clock, cacheOptions>>

\* SimpleCache.delete(key)
CacheDelete(key) ==
  /\ pc = "idle"
  /\ input' = [op |-> "delete", key |-> key, at |-> clock]
  /\ output' = [op |-> "delete", found |-> mapHas(cache, key)]
  /\ Becomes(delete(Store, key))
  /\ UNCHANGED <<transport, pc, clock, cacheOptions>>

\* SimpleCache.keys()
CacheKeys ==
  /\ pc = "idle"
  /\ input' = [op |-> "keys", at |-> clock]
  /\ Becomes(cleanup(Store, clock))
  /\ output' = [op |-> "keys", keys |-> keysOf(cleanup(Store, clock).cache)]
  /\ UNCHANGED <<transport, pc, clock, cacheOptions>>

\* SimpleCache.clear()
CacheClear ==
  /\ pc = "idle"
  /\ input' = [op |-> "clear", at |-> clock]
  /\ output' = [op |-> "clear"]
  /\ cache' = <<>>
  /\ currentSize' = 0
  /\ UNCHANGED <<transport, pc, clock, cacheOptions>>

\* a millisecond passes between two calls
Tick ==
  /\ pc = "idle"
  /\ clock < MaxNow
  /\ clock' = clock + 1
  /\ UNCHANGED <<transport, pc, store, input, output>>

\* keys: '', 'a' and 'b'
CacheKeyNames == {<<>>, <<"a">>, <<"b">>}

\* values that serialize to one and to two characters, and one that
\* JSON.stringify refuses
CacheValues == {Value(1, 1), Value(2, 2), Unserializable}

\* the ttl argument of set: absent, or 2 ms
CacheTtls == {Undefined, Number(2)}

\* the options of the caches: entries live 1 ms, at most 4 or 6 bytes, at
\* most 0 to MaxEntries entries
CacheOptionsSets ==
  [ttl : {1}, maxSize : {4, 6}, maxEntries : 0..MaxEntries]

CacheInputs == [op : {"new SimpleCache"}, cacheOptions : CacheOptionsSets]

InitCache == \E i \in CacheInputs : InitState("idle", [times |-> 0], i)

NextCache ==
  \/ \E k \in CacheKeyNames, v \in CacheValues, t \in CacheTtls :
       CacheSet(k, v, t)
  \/ Evict
  \/ Stored
  \/ \E k \in CacheKeyNames : CacheGet(k)
  \/ \E k \in CacheKeyNames : CacheHas(k)
  \/ \E k \in CacheKeyNames : CacheDelete(k)
  \/ CacheKeys
  \/ CacheClear
  \/ Tick

\* the loop of set runs on: its steps are fair
SpecCache ==
  /\ InitCache
  /\ [][NextCache]_vars
  /\ WF_vars(Evict)
  /\ WF_vars(Stored)

(***************************************************************************)
(* The response cache specification: set, get and invalidate on one        *)
(* HttpResponseCache, which keeps its entries in a SimpleCache             *)
(***************************************************************************)
\* HttpResponseCache.set(method, url, response, body, ttl): the response
\* res is given by its status and the length it serializes to
HttpSet(method, url, res, bodyStr, ttl) ==
  /\ pc = "idle"
  /\ IF method # "GET" \/ res.status >= 400
     THEN /\ input' = [op |-> "HttpResponseCache.set", at |-> clock]
          /\ output' = [op |-> "set", returned |-> FALSE]
          /\ UNCHANGED <<pc, cache, currentSize>>
     ELSE SetBegins(generateKey(method, url, bodyStr),
                    Value(res.status, res.length), ttl)
  /\ UNCHANGED <<transport, clock, cacheOptions>>

\* HttpResponseCache.get(method, url, body)
HttpGet(method, url, bodyStr) ==
  IF method # "GET"
  THEN /\ pc = "idle"
       /\ input' = [op |-> "HttpResponseCache.get", at |-> clock]
       /\ output' = [op |-> "get", found |-> FALSE, value |-> Unserializable]
       /\ UNCHANGED <<transport, pc, clock, store>>
  ELSE CacheGet(generateKey(method, url, bodyStr))

\* HttpResponseCache.invalidate(url)
Invalidate(url) ==
  /\ pc = "idle"
  /\ input' = [op |-> "invalidate", url |-> url, at |-> clock]
  /\ output' = [op |-> "invalidate"]
  /\ LET st == cleanup(Store, clock)
     IN Becomes(invalidateLoop(st, keysOf(st.cache), invalidateBase(url)))
  /\ UNCHANGED <<transport, pc, clock, cacheOptions>>

\* '/users', '/users?page=1', '/users/1' and '/orders'
HttpUrls ==
  {<<"/users">>, <<"/users", "?page=1">>, <<"/users", "/1">>, <<"/orders">>}

HttpMethods == {"GET", "POST"}

HttpResponses == [status : {200, 404}, length : {1}]

\* the ttl argument of HttpResponseCache.set: absent, or 1 ms
HttpTtls == {Undefined, Number(1)}

\* new HttpResponseCache({ maxEntries })
HttpCacheInputs ==
  [op : {"new HttpResponseCache"},
   cacheOptions : {HttpCacheOptions([maxEntries |-> MaxEntries])}]

InitHttpCache ==
  \E i \in HttpCacheInputs : InitState("idle", [times |-> 0], i)

NextHttpCache ==
  \/ \E m \in HttpMethods, u \in HttpUrls, r \in HttpResponses,
        t \in HttpTtls : HttpSet(m, u, r, <<>>, t)
  \/ Evict
  \/ Stored
  \/ \E m \in HttpMethods, u \in HttpUrls : HttpGet(m, u, <<>>)
  \/ \E u \in HttpUrls : Invalidate(u)
  \/ Tick

SpecHttpCache == InitHttpCache /\ [][NextHttpCache]_vars

(***************************************************************************)
(* The sanitizer specification: sanitizeString applied to a value, and     *)
(* applied again to what it returned                                       *)
(***************************************************************************)
\* InputValidator.sanitizeString(value, maxLength) is called, and called
\* again on its result with the same maxLength
SanitizeTwice ==
  LET once == sanitizeString(input.value, input.maxLength)
  IN Returns("sanitizeString",
             [once  |-> once,
              twice |-> sanitizeString(Str(once), input.maxLength)])

\* the strings of up to MaxLen characters out of a letter, a blank and NUL
SanitizeStrings ==
  {Text(cs) : cs \in UNION {[1..n -> {"a", "SP", "NUL"}] : n \in 0..MaxLen}}

\* maxLength 0 stands for an absent maxLength
SanitizeInputs ==
  [op : {"sanitizeString"},
   value : {Str(t) : t \in SanitizeStrings} \cup {NotAString},
   maxLength : 0..MaxLen]

InitSanitize ==
  \E i \in SanitizeInputs : InitState("idle", [times |-> 0], i)

NextSanitize == SanitizeTwice

SpecSanitize == InitSanitize /\ [][NextSanitize]_vars

(***************************************************************************)
(* Vocabulary of the properties                                            *)
(***************************************************************************)
\* the latest fetch call
LastCall == calls[Len(calls)]

\* the current attempt is over: request() sleeps, has returned or has thrown
AttemptEnded == pc \in {"retryWait", "done", "failed"} /\ calls # <<>>

\* a transport-level failure: the network call or the body stream rejected
NetworkFailure(e) == e.reason = "network"

\* the failure classes the retry loop treats as transient: network failure,
\* timeout, and a non-2xx status other than 401, 422 and 429
TransientFailure(e) ==
  \/ e.reason \in {"network", "timeout"}
  \/ e.name = "MeruException" /\ e.reason = "http"

\* the body of the latest response was read to its end within the size
\* limit, and it passed validateJsonString if it had to
BodyPassed == readState = "complete" /\ jsonValidation # "invalid"

RECURSIVE SumSeq(_)
SumSeq(q) == IF q = <<>> THEN 0 ELSE Head(q) + SumSeq(Tail(q))

(***************************************************************************)
(* Properties                                                              *)
(***************************************************************************)
\* C1: when request() has ended and every attempt failed with a network
\* failure, exactly times + 1 network calls were made and request() threw
\* the failure of the last attempt.
C1_RetryExhaustion ==
  (/\ pc \in {"done", "failed"}
   /\ calls # <<>>
   /\ \A i \in 1..Len(calls) :
        calls[i].outcome = "failed" /\ NetworkFailure(calls[i].error))
  => /\ Len(calls) = retry.times + 1
     /\ pc = "failed"
     /\ thrown = LastCall.error
     /\ thrown.attempt = Len(calls)

\* every attempt of an ended call failed with a network failure, after at
\* least one retry
C1_Witness ==
  /\ pc = "failed"
  /\ retry.times >= 1
  /\ Len(calls) = retry.times + 1
  /\ \A i \in 1..Len(calls) : NetworkFailure(calls[i].error)

\* C7: one request() call makes at most times + 1 network calls, whatever
\* mix of rate-limit failures and other failures its attempts meet.
C7_AttemptBudget == Len(calls) <= retry.times + 1

\* the budget is used up by a retry after a rate-limit failure and a retry
\* after another failure
C7_Witness ==
  /\ pc \in {"done", "failed"}
  /\ retry.times >= 2
  /\ Len(calls) = retry.times + 1
  /\ \E i, j \in 1..(Len(calls) - 1) :
       /\ calls[i].error.name = "RateLimitException"
       /\ calls[j].error.name # "RateLimitException"
\* C2 as stated: whenever an attempt has ended on a response with status 401
\* the call has ended with an AuthenticationException, and on a response
\* with status 422 with a ValidationException.
C2_Original ==
  /\ (AttemptEnded /\ response.status = 401)
       => (pc = "failed" /\ thrown.name = "AuthenticationException")
  /\ (AttemptEnded /\ response.status = 422)
       => (pc = "failed" /\ thrown.name = "ValidationException")

\* C2: whenever an attempt has ended on a response with status 401 (422)
\* whose body was read to its end and passed the size and JSON checks, the
\* call has ended with the AuthenticationException (ValidationException) of
\* that attempt; a call that failed so is the last network call made.
C2_NoRetryOnAuthOrValidation ==
  /\ (AttemptEnded /\ response.status = 401 /\ BodyPassed)
       => /\ pc = "failed"
          /\ thrown.name = "AuthenticationException"
          /\ thrown.attempt = Len(calls)
  /\ (AttemptEnded /\ response.status = 422 /\ BodyPassed)
       => /\ pc = "failed"
          /\ thrown.name = "ValidationException"
          /\ thrown.attempt = Len(calls)
  /\ \A i \in 1..Len(calls) :
       calls[i].error.name
           \in {"AuthenticationException", "ValidationException"}
         => i = Len(calls) /\ pc = "failed" /\ thrown = calls[i].error

\* a 401 on the first attempt ended a call that had retries left
C2_Witness ==
  /\ pc = "failed"
  /\ retry.times >= 1
  /\ Len(calls) = 1
  /\ response.status = 401
  /\ thrown.name = "AuthenticationException"

\* the Retry-After header carries a number of seconds s, 0 < s <= 300
RetryAfterSeconds(r) ==
  /\ r.retryAfter.kind = "number"
  /\ r.retryAfter.n > 0
  /\ r.retryAfter.n <= MAX_RETRY_AFTER

C4_WaitStep(bodyMustPass) ==
  (/\ pc = "retryWait"
   /\ response.status = 429
   /\ RetryAfterSeconds(response)
   /\ bodyMustPass => BodyPassed
   /\ pc' = "sending")
  => clock' - LastCall.endedAt >= response.retryAfter.n * 1000

\* C4, second half: the attempt that follows a retried rate-limit failure
\* returns its 2xx response
C4_ThenReturns(bodyMustPass) ==
  (/\ AttemptEnded
   /\ Len(calls) >= 2
   /\ calls[Len(calls) - 1].error.name = "RateLimitException"
   /\ response.status \in 200..299
   /\ bodyMustPass => BodyPassed)
  => /\ pc = "done"
     /\ result.attempt = Len(calls)
     /\ result.status = response.status

ContentFailure == LastCall.error.reason \in {"size", "json"}

\* C5: an attempt that failed on the content of its response (declared or
\* streamed size above maxResponseSize, JSON body failing validation) ends
\* the request() call: the failure is thrown, there is no retry.
C5_ContentFailureNotRetried ==
  (AttemptEnded /\ LastCall.outcome = "failed" /\ ContentFailure)
  => pc = "failed" /\ thrown = LastCall.error

\* C6 as stated: when attempts 1..k-1 failed with transient failures and
\* attempt k has ended on a 2xx response, request() has returned the
\* response of attempt k after exactly k network calls.
C6_Original ==
  (/\ AttemptEnded
   /\ \A i \in 1..(Len(calls) - 1) : TransientFailure(calls[i].error)
   /\ response.status \in 200..299)
  => /\ pc = "done"
     /\ result.attempt = attempt
     /\ result.status = response.status
     /\ Len(calls) = attempt

\* C6: when attempts 1..k-1 failed with transient failures and attempt k has
\* ended on a 2xx response whose body was read to its end and passed the
\* size and JSON checks, request() has returned the response of attempt k
\* after exactly k network calls.
C6_RetryThenSuccess ==
  (/\ AttemptEnded
   /\ \A i \in 1..(Len(calls) - 1) : TransientFailure(calls[i].error)
   /\ response.status \in 200..299
   /\ BodyPassed)
  => /\ pc = "done"
     /\ result.attempt = attempt
     /\ result.status = response.status
     /\ Len(calls) = attempt

\* the third attempt succeeded after a network failure and a timeout
C6_Witness ==
  /\ pc = "done"
  /\ Len(calls) = 3
  /\ result.attempt = 3
  /\ calls[1].error.reason = "network"
  /\ calls[2].error.reason = "timeout"
\* a header value the validator must refuse: not a string, longer than
\* 8192 characters, or with CR, LF, NUL or another control character
BadHeaderValue(v) ==
  \/ v.type # "string"
  \/ Length(v.chars) > MAX_HEADER_VALUE_LENGTH
  \/ \E i \in 1..Len(v.chars) :
       v.chars[i].c \in {"CR", "LF", "NUL", "TAB", "DEL"}

Wire(h, name) == {h[k] : k \in {x \in DOMAIN h : toLowerCase(x) = name}}

\* C9: every network call carries exactly one Authorization value, 'Bearer'
\* followed by the configured token, and exactly one User-Agent value, the
\* fixed one, whatever headers the caller supplied.
C9_CriticalHeadersKept ==
  \A i \in 1..Len(calls) :
    /\ Wire(calls[i].headers, "authorization") = {Bearer(apiToken)}
    /\ Wire(calls[i].headers, "user-agent") = {USER_AGENT}

\* a second attempt was sent for a request whose caller supplied
\* AUTHORIZATION and user-agent headers
C9_Witness ==
  /\ Len(calls) >= 2
  /\ \E i, j \in 1..Len(options.headers) :
       /\ options.headers[i][1] = "AUTHORIZATION"
       /\ options.headers[j][1] = "user-agent"

\* C10: the bytes held in the read buffer never exceed maxResponseSize, and
\* the read step that takes the running total above maxResponseSize ends
\* the read with a size-limit failure without storing the chunk.
C10_BufferBounded ==
  /\ [](/\ SumSeq(chunks) <= maxResponseSize
        /\ pc = "reading" => totalSize = SumSeq(chunks))
  /\ [][(pc = "reading" /\ totalSize' > maxResponseSize)
          => /\ pc' # "reading"
             /\ lastError'.reason = "size"
             /\ lastError'.attempt = attempt
             /\ chunks' = chunks]_vars

\* a body without Content-Length was cut off by the chunk that followed a
\* buffer filled to the cap
C10_Witness ==
  /\ readState = "aborted"
  /\ response.contentLength = HeaderAbsent
  /\ SumSeq(chunks) = maxResponseSize
  /\ totalSize > maxResponseSize

\* C11: an attempt whose response declares a Content-Length above
\* maxResponseSize has ended with the size-limit failure of that attempt,
\* and no byte of the body was read: the reader was never started, nothing
\* was counted and nothing was stored.
C11_DeclaredSizeRejected ==
  (/\ response.contentLength.kind = "number"
   /\ response.contentLength.n > maxResponseSize)
  => /\ AttemptEnded
     /\ LastCall.outcome = "failed"
     /\ LastCall.error.name = "MeruException"
     /\ LastCall.error.reason = "size"
     /\ LastCall.error.attempt = attempt
     /\ readState = "none"
     /\ totalSize = 0
     /\ chunks = <<>>

\* a response with a body stream that declared one byte more than the cap
\* was refused on the second attempt
C11_Witness ==
  /\ AttemptEnded
  /\ attempt = 2
  /\ response.hasBody
  /\ response.contentLength = HeaderNumber(maxResponseSize + 1)
  /\ LastCall.error.reason = "size"
  /\ readState = "none"

\* C12: the sleep that follows a rate-limit failure lasts the Retry-After
\* value of that failure cut down to at most 300 s, and never longer than
\* MAX_DELAY, the ceiling of every computed backoff.
C12_RateLimitWaitCapped ==
  (pc = "retryWait" /\ LastCall.error.name = "RateLimitException")
  => /\ sleepMs = Min(LastCall.error.retryAfter.n, MAX_RETRY_AFTER) * 1000
     /\ sleepMs <= MAX_DELAY

\* the fields of the client pass the validation of their kind
ValidFields ==
  /\ apiToken # <<>>
  /\ validateUrl(baseUrl, input.NODE_ENV = "development").isValid
  /\ timeout \in MIN_REQUEST_TIMEOUT..MAX_REQUEST_TIMEOUT
  /\ maxResponseSize > 0
  /\ retryConfig.times >= 0
  /\ retryConfig.backoffMultiplier >= 1

\* C13: every client the constructor has built holds a non-empty token, a
\* valid base URL, a timeout in [1000, 60000], a positive maxResponseSize,
\* retry times >= 0 and a backoff multiplier >= 1.
C13_ConstructedValid == pc = "idle" => ValidFields

\* C14: when request() has thrown the failure of an attempt whose network
\* call was rejected, on the first attempt or after the retries were used
\* up, what it has thrown is a MeruException.
C14_NetworkRejectionWrapped ==
  (/\ pc = "failed"
   /\ calls # <<>>
   /\ thrown = LastCall.error
   /\ NetworkFailure(thrown)
   /\ readState = "none")
  => thrown.name = "MeruException"

\* C15: an attempt that got no response within the timeout has ended, the
\* timeout after it began, with a MeruException for the timeout; request()
\* then sleeps min(delay * backoffMultiplier^(attempt-1), maxDelay) for a
\* retry if attempts remain, and throws that failure otherwise.
C15_TimeoutRetried ==
  (AttemptEnded /\ LastCall.outcome = "failed"
                /\ LastCall.error.reason = "timeout")
  => /\ LastCall.error.name = "MeruException"
     /\ LastCall.error.attempt = attempt
     /\ LastCall.endedAt - LastCall.startedAt = timeout
     /\ IF attempt <= retry.times
        THEN /\ pc = "retryWait"
             /\ sleepMs =
                  Min(retryConfig.delay
                        * Pow(retryConfig.backoffMultiplier, attempt - 1),
                      retryConfig.maxDelay)
        ELSE /\ pc = "failed"
             /\ thrown = LastCall.error

\* the second attempt timed out as well and request() sleeps twice the
\* initial delay before the third
C15_Witness ==
  /\ pc = "retryWait"
  /\ attempt = 2
  /\ calls[1].error.reason = "timeout"
  /\ calls[2].error.reason = "timeout"
  /\ sleepMs = 2 * DEFAULT_DELAY

\* the hosts the claim lists: loopback names and addresses, the RFC 1918
\* ranges, the metadata address
BlockedTarget(h) ==
  \/ h \in {Domain("localhost"), Domain("LOCALHOST"), IPv4(127, 0, 0, 1),
            IPv6("::1"), IPv4(0, 0, 0, 0), IPv4(169, 254, 169, 254)}
  \/ /\ h.form = "ipv4"
     /\ \/ h.octets[1] = 10
        \/ h.octets[1] = 172 /\ h.octets[2] \in 16..31
        \/ h.octets[1] = 192 /\ h.octets[2] = 168

\* C16: validateWebhookUrl, with http allowed or not, and validateHostname
\* return isValid = false for every http or https URL whose host is a
\* blocked target.
C16_BlockedHostsRefused ==
  /\ (/\ Applied("validateWebhookUrl")
      /\ input.url.kind = "url"
      /\ input.url.scheme \in {"https", "http"}
      /\ BlockedTarget(input.url.host))
     => ~output.isValid
  /\ (/\ Applied("validateHostname")
      /\ ~input.allowPrivateNetworks
      /\ input.url.scheme \in {"https", "http"}
      /\ BlockedTarget(input.url.host))
     => ~output.isValid

\* the reference depth of a JSON value: 0 for a primitive, 1 + the largest
\* depth of a child for an array or an object.  A chain of n containers
\* around a primitive has depth n, around an empty array or object n + 1.
ChainDepth(c) == c.n + (IF c.leaf = "primitive" THEN 0 ELSE 1)

RECURSIVE LargestChainDepth(_)
LargestChainDepth(items) ==
  IF items = <<>> THEN 0
  ELSE Max(ChainDepth(Head(items)), LargestChainDepth(Tail(items)))

RefDepth(v) ==
  IF v.kind = "primitive" THEN 0 ELSE 1 + LargestChainDepth(v.items)

\* C17: for a string that parses, the depth validateJsonString computes is
\* the reference depth of the value if that is at most 100 and is above 100
\* otherwise, and the result has the depth error exactly when the reference
\* depth is above 100, whatever the length of the string.
C17_DepthMatchesReference ==
  (Applied("validateJsonString") /\ input.text.parses)
  => LET r == RefDepth(input.text.value)
     IN /\ r <= MAX_JSON_DEPTH => output.depth = r
        /\ r > MAX_JSON_DEPTH => output.depth > MAX_JSON_DEPTH
        /\ (\E i \in 1..Len(output.errors) : output.errors[i] = "depth")
             <=> r > MAX_JSON_DEPTH

C19_LoggerFailureHarmless ==
  /\ lastError.reason # "logger"
  /\ thrown.reason # "logger"

\* a configuration with a usable token and timeout whose base URL is an
\* http:// URL of a public or a local host, given to the constructor in
\* development mode
HttpBaseUrlInDevelopment ==
  /\ input.op = "constructor"
  /\ input.NODE_ENV = "development"
  /\ "baseUrl" \in DOMAIN input.config
  /\ input.config.baseUrl \in {Url("http", Domain("api.example.com")),
                                Url("http", Domain("localhost"))}
  /\ input.config.apiToken = Str(API_TOKEN)
  /\ validateTimeout(Get(input.config, "timeout",
                         Number(DEFAULT_TIMEOUT))).isValid

\* C20: in development mode the constructor does not reject a configuration
\* whose base URL is an http:// URL, a local development endpoint
\* included: once it has run, the client is built.
C20_HttpInDevelopment ==
  (pc # "new" /\ HttpBaseUrlInDevelopment) => pc = "idle"

\* C21: every call to request() eventually returns a response or throws a
\* failure, whatever the server does, a server that never answers and one
\* that sends the headers and never completes the body included.
C21_RequestTerminates == <>(pc \in {"done", "failed"})

\* C22: within one request() call every network call but the latest has
\* failed, so at most one is in flight; and a network call that is not the
\* first is started from the wait that followed the failure of the one
\* before it, at the time that wait has elapsed.
C22_AttemptsSequential ==
  /\ [](\A i \in 1..(Len(calls) - 1) :
          /\ calls[i].outcome = "failed"
          /\ calls[i].endedAt <= calls[i + 1].startedAt)
  /\ [][(Len(calls') > Len(calls) /\ calls # <<>>)
          => /\ pc = "retryWait"
             /\ LastCall.outcome = "failed"
             /\ Len(calls') = Len(calls) + 1
             /\ calls'[Len(calls')].startedAt
                  = LastCall.endedAt + (IF sleepMs > 0 THEN sleepMs ELSE 0)
             /\ calls'[Len(calls')].outcome = "pending"]_vars

\* a second network call is in flight, started after the wait that
\* followed the failure of the first
C22_Witness ==
  /\ pc = "sending"
  /\ Len(calls) = 2
  /\ calls[1].outcome = "failed"
  /\ calls[2].outcome = "pending"
  /\ calls[2].startedAt > calls[1].endedAt

\* the state of the call in the state machine of one logical call.
\* Building and Validating are passed inside the step that calls
\* request(), Classifying inside the step that ends an attempt.
CallState ==
  CASE pc = "idle"      -> "NotCalled"
    [] pc = "sending"   -> "Sending"
    [] pc = "reading"   -> "Reading"
    [] pc = "retryWait" -> "RetryWait"
    [] pc = "done"      -> "Success"
    [] pc = "failed"    -> "TerminalFailure"
    [] OTHER            -> "Unknown"

\* the position of a state in the forward order of the state machine
Rank(st) ==
  CASE st = "NotCalled"       -> 0
    [] st = "Sending"         -> 1
    [] st = "Reading"         -> 2
    [] st = "RetryWait"       -> 3
    [] st = "Success"         -> 4
    [] st = "TerminalFailure" -> 4
    [] OTHER                  -> 5

\* C23: a request() call is in one of the states of the state machine;
\* no step leaves Success or TerminalFailure; Sending is entered when
\* request() is called and re-entered only from RetryWait; RetryWait is
\* left only for Sending, and every other step moves forward.
C23_StateMachine ==
  /\ [](CallState # "Unknown")
  /\ [][/\ CallState \in {"Success", "TerminalFailure"} => vars' = vars
        /\ (CallState' = "Sending" /\ CallState # "Sending")
             => CallState \in {"NotCalled", "RetryWait"}
        /\ (CallState' = "Sending" /\ calls # <<>>)
             => CallState \in {"Sending", "RetryWait"}
        /\ CallState = "RetryWait"
             => CallState' \in {"RetryWait", "Sending"}
        /\ CallState # "RetryWait"
             => Rank(CallState') >= Rank(CallState)]_vars

\* a call that went through every state: its first attempt was read and
\* failed, and after the wait its second attempt was read and returned
C23_Witness ==
  /\ pc = "done"
  /\ Len(calls) = 2
  /\ calls[1].outcome = "failed"
  /\ calls[1].error.name = "MeruException"
  /\ calls[1].error.status >= 500
  /\ response.hasBody
  /\ chunks # <<>>

\* the caller's header i is named Authorization, User-Agent or Host, in
\* whatever letter case
Protected(i) == toLowerCase(options.headers[i][1]) \in CriticalHeaders

\* the caller's header i has a name and a value the validator refuses
Refused(i) ==
  /\ options.headers[i][1] # ""
  /\ BadHeaderValue(options.headers[i][2])

C25_SetTerminates == (pc = "setting") ~> (pc = "idle")

\* the sum of the size fields of the entries of c
RECURSIVE SumSizes(_)
SumSizes(c) == IF c = <<>> THEN 0 ELSE Head(c).size + SumSizes(Tail(c))

\* C26: whatever calls were made on the SimpleCache, getStats().memoryUsage
\* is the sum of the size fields of the entries stored, and is not
\* negative.
C26_MemoryUsageExact ==
  /\ getStats(Store).memoryUsage = SumSizes(cache)
  /\ getStats(Store).memoryUsage >= 0

\* an entry was deleted, at time 2 or later, from a cache that keeps
\* another entry of 4 bytes
C26_Witness ==
  /\ output = [op |-> "delete", found |-> TRUE]
  /\ Len(cache) = 1
  /\ currentSize = 4
  /\ clock >= 2

\* C27: in a SimpleCache configured with maxEntries >= 1, when a set call
\* has returned, true or false, the cache holds at most maxEntries entries
\* and memoryUsage is at most maxSize.
C27_LimitsKept ==
  (/\ cacheOptions.maxEntries >= 1
   /\ pc = "idle"
   /\ output \in {[op |-> "set", returned |-> TRUE],
                  [op |-> "set", returned |-> FALSE]})
  => /\ getStats(Store).entries <= cacheOptions.maxEntries
     /\ getStats(Store).memoryUsage <= cacheOptions.maxSize

\* set has returned true on a cache that is full in entries and in bytes
C27_Witness ==
  /\ pc = "idle"
  /\ output = [op |-> "set", returned |-> TRUE]
  /\ cacheOptions.maxEntries >= 2
  /\ Len(cache) = cacheOptions.maxEntries
  /\ currentSize = cacheOptions.maxSize
  /\ input.entry.size = 4

\* the entries of c whose expiry time has not passed at now
Live(c, now) == SelectSeq(c, LAMBDA e : ~(now > e.expiry))

\* a step in which the method op of the SimpleCache was called
CallOf(op) ==
  /\ pc = "idle"
  /\ pc' = "idle"
  /\ clock' = clock
  /\ input'.op = op
  /\ input'.at = clock

\* what get(key) or has(key) must have done with the cache: an entry whose
\* expiry time has passed is not reported and is removed with its size
\* subtracted, an entry that is reported is stored and has not expired,
\* and nothing else changes
ReadsLive(key) ==
  LET stored  == \E i \in 1..Len(cache) : cache[i].key = key
      entry   == cache[CHOOSE i \in 1..Len(cache) : cache[i].key = key]
      passed  == clock > entry.expiry
  IN /\ output'.found <=> (stored /\ ~passed)
     /\ IF stored /\ passed
        THEN /\ cache' = SelectSeq(cache, LAMBDA e : e.key # key)
             /\ currentSize' = currentSize - entry.size
        ELSE /\ cache' = cache
             /\ currentSize' = currentSize

StoredFor(e, url) == e.key = generateKey("GET", url, <<>>)

\* C29: invalidate(url) removes every entry stored for that URL, the query
\* strings of both left aside, and leaves in place, as it was, every entry
\* that has not expired and was stored for a different URL.
C29_InvalidateFrame ==
  [][(CallOf("invalidate") /\ output'.op = "invalidate")
      => \A i \in 1..Len(cache) : \A url \in HttpUrls :
           StoredFor(cache[i], url)
           => IF beforeQuery(url) = beforeQuery(input'.url)
              THEN \A j \in 1..Len(cache') : cache'[j].key # cache[i].key
              ELSE clock > cache[i].expiry
                   \/ \E j \in 1..Len(cache') : cache'[j] = cache[i]]_vars

\* C30: sanitizeString applied to its own result, with the same maxLength,
\* returns that result.
C30_SanitizeIdempotent ==
  Applied("sanitizeString") => output.twice = output.once
====